---- MODULE Spec2Model ----
(***************************************************************************)
(* Space shooter widget (src/Workshop/SpaceShooter.tsx): the World State   *)
(* held in React state, the input handlers writing keysRef, the Simulation *)
(* Step updateGame, render, resetGame, the playerSize effect, and the init  *)
(* effect with its cleanup at unmount.                                     *)
(*                                                                         *)
(* Numbers are integers: game speeds, enemy speeds and spawn abscissas are *)
(* drawn from integer sets and sizes are even, so that width / 2 is exact. *)
(***************************************************************************)
EXTENDS Integers, Sequences, FiniteSets, TLC

VARIABLES
    gameState,    \* useState: player, bullets, enemyBullets, enemies, explosions, timers, gameOver
    score,        \* useState(0): the score React currently holds
    scoreQueue,   \* setScore updaters queued by startTransition and not yet applied
    keysRef,      \* keysRef.current: the set of held keys
    touchRef,     \* touchRef.current: the pointer target (no handler assigns it)
    gameSpeed,    \* props.gameSpeed
    playerSize,   \* props.playerSize
    enemySize,    \* props.enemySize
    now,          \* the clock read by Date.now()
    framesLeft,   \* animation frames the run may still take
    inputsLeft,   \* input events and prop changes the run may still take
    loop,         \* the component's hold on the host: mounted, key listeners, frame requests
    ev            \* the last handler run and what its collision passes saw

vars == <<gameState, score, scoreQueue, keysRef, touchRef, gameSpeed,
          playerSize, enemySize, now, framesLeft, inputsLeft, loop, ev>>

----------------------------------------------------------------------------
(* Program constants *)

CANVAS_WIDTH == 800
CANVAS_HEIGHT == 600
FireCooldown == 200
SpawnCooldown == 1000
ExplosionFrames == 10
TouchDeadZone == 5
PlayerStartX == 400
PlayerStartY == 500
PlayerSpeed == 5

ArrowKeys == {"ArrowLeft", "ArrowRight", "ArrowUp", "ArrowDown"}

Null == "null"

----------------------------------------------------------------------------
(* Bounds of the model *)

MaxTicks == 3          \* frames per run from construction
MaxBullets == 2        \* player bullets kept at the end of a frame
MaxEnemies == 2        \* enemies kept at the end of a frame
MaxEnemyBullets == 1   \* enemy bullets kept at the end of a frame
MaxInputs == 2         \* input events and prop changes per run from construction

GameSpeeds == {1, 3}
PlayerSizes == {32, 64}
EnemySizes == {32}
ClockStarts == {5000}
ClockSteps == {200}
OtherKeys == {"Enter"}

----------------------------------------------------------------------------
(* Helpers *)

Max(a, b) == IF a > b THEN a ELSE b
Min(a, b) == IF a < b THEN a ELSE b

RECURSIVE SumSeq(_)
SumSeq(s) == IF s = <<>> THEN 0 ELSE Head(s) + SumSeq(Tail(s))

Indices(s) == [i \in 1..Len(s) |-> i]

\* the integer part of the square root, by bisection of lo..hi
RECURSIVE ISqrtFrom(_, _, _)
ISqrtFrom(n, lo, hi) ==
    IF lo = hi THEN lo
    ELSE LET mid == (lo + hi + 1) \div 2
         IN  IF mid * mid <= n THEN ISqrtFrom(n, mid, hi)
             ELSE ISqrtFrom(n, lo, mid - 1)
ISqrt(n) == ISqrtFrom(n, 0, n)

----------------------------------------------------------------------------
(* Geometry and entity factories *)

\* mutant: rectangles that touch along an edge intersect
checkCollision_closed(obj1, obj2) ==
    /\ obj1.x <= obj2.x + obj2.width
    /\ obj1.x + obj1.width >= obj2.x
    /\ obj1.y <= obj2.y + obj2.height
    /\ obj1.y + obj1.height >= obj2.y

checkCollision(obj1, obj2) ==
    /\ obj1.x < obj2.x + obj2.width
    /\ obj1.x + obj1.width > obj2.x
    /\ obj1.y < obj2.y + obj2.height
    /\ obj1.y + obj1.height > obj2.y

\* rx, rs, rt stand for the three Math.random() draws
spawnEnemy(size, rx, rs, rt) ==
    [x |-> rx, y |-> -size, width |-> size, height |-> size,
     speed |-> rs, active |-> TRUE, type |-> rt]

fireBullet(player) ==
    [x |-> player.x + player.width \div 2 - 2, y |-> player.y,
     width |-> 4, height |-> 12, speed |-> 8, active |-> TRUE]

\* mutant: the enemy bullet leaves from the enemy's top edge
fireEnemyBullet_fromTop(enemy) ==
    [x |-> enemy.x + enemy.width \div 2 - 2, y |-> enemy.y,
     width |-> 4, height |-> 8, speed |-> 4, active |-> TRUE]

fireEnemyBullet(enemy) ==
    [x |-> enemy.x + enemy.width \div 2 - 2, y |-> enemy.y + enemy.height,
     width |-> 4, height |-> 8, speed |-> 4, active |-> TRUE]

newExplosion(cx, cy) == [x |-> cx, y |-> cy, frame |-> 0, active |-> TRUE]

newPlayer(size) ==
    [x |-> PlayerStartX, y |-> PlayerStartY, width |-> size, height |-> size,
     speed |-> PlayerSpeed, active |-> TRUE]

initialGameState(size) ==
    [player |-> newPlayer(size),
     bullets |-> <<>>, enemyBullets |-> <<>>, enemies |-> <<>>,
     explosions |-> <<>>,
     lastEnemySpawn |-> 0, lastBulletFire |-> 0, gameOver |-> FALSE]

----------------------------------------------------------------------------
(* updateGame, step by step *)

\* mutant: the vertical checks read the keys after a key-up of ArrowUp and
\* ArrowDown that came in behind the horizontal checks
moveByKeys_torn(p, keys, gs) ==
    LET late == keys \ {"ArrowUp", "ArrowDown"}
        p1 == IF "ArrowLeft" \in keys /\ p.x > 0
              THEN [p EXCEPT !.x = @ - p.speed * gs] ELSE p
        p2 == IF "ArrowRight" \in keys /\ p1.x < CANVAS_WIDTH - p1.width
              THEN [p1 EXCEPT !.x = @ + p1.speed * gs] ELSE p1
        p3 == IF "ArrowUp" \in late /\ p2.y > 0
              THEN [p2 EXCEPT !.y = @ - p2.speed * gs] ELSE p2
        p4 == IF "ArrowDown" \in late /\ p3.y < CANVAS_HEIGHT - p3.height
              THEN [p3 EXCEPT !.y = @ + p3.speed * gs] ELSE p3
    IN  p4

\* the four key checks, each on the position the previous one left
moveByKeys(p, keys, gs) ==
    LET p1 == IF "ArrowLeft" \in keys /\ p.x > 0
              THEN [p EXCEPT !.x = @ - p.speed * gs] ELSE p
        p2 == IF "ArrowRight" \in keys /\ p1.x < CANVAS_WIDTH - p1.width
              THEN [p1 EXCEPT !.x = @ + p1.speed * gs] ELSE p1
        p3 == IF "ArrowUp" \in keys /\ p2.y > 0
              THEN [p2 EXCEPT !.y = @ - p2.speed * gs] ELSE p2
        p4 == IF "ArrowDown" \in keys /\ p3.y < CANVAS_HEIGHT - p3.height
              THEN [p3 EXCEPT !.y = @ + p3.speed * gs] ELSE p3
    IN  p4

clampPlayer(p) ==
    [p EXCEPT !.x = Max(0, Min(CANVAS_WIDTH - p.width, p.x)),
              !.y = Max(0, Min(CANVAS_HEIGHT - p.height, p.y))]

\* the pointer branch: a step toward the point, then the clamp; the quotient
\* by the distance is taken on integers
seekTouch(p, touch, gs) ==
    LET dx == (touch.x - p.width \div 2) - p.x
        dy == (touch.y - p.height \div 2) - p.y
        d2 == dx * dx + dy * dy
        distance == ISqrt(d2)
        moved == IF d2 > TouchDeadZone * TouchDeadZone
                 THEN [p EXCEPT !.x = @ + (dx * p.speed * gs) \div distance,
                                !.y = @ + (dy * p.speed * gs) \div distance]
                 ELSE p
    IN  clampPlayer(moved)

\* the pointer branch runs only when touchRef.current is set
moveByTouch(p, touch, gs) ==
    IF touch = Null THEN p ELSE seekTouch(p, touch, gs)

autoFire(bullets, player, lastBulletFire, currentTime) ==
    IF currentTime - lastBulletFire > FireCooldown
    THEN Append(bullets, fireBullet(player)) ELSE bullets

advanceBullets(bullets, gs) ==
    LET moved == [i \in 1..Len(bullets) |->
                    [bullets[i] EXCEPT !.y = @ - bullets[i].speed * gs]]
        keep(b) == b.y > -b.height /\ b.active
    IN  SelectSeq(moved, keep)

advanceEnemyBullets(bullets, gs) ==
    LET moved == [i \in 1..Len(bullets) |->
                    [bullets[i] EXCEPT !.y = @ + bullets[i].speed * gs]]
        keep(b) == b.y < CANVAS_HEIGHT + b.height /\ b.active
    IN  SelectSeq(moved, keep)

\* mutant: enemies of the second kind fall twice as fast
moveEnemies_byKind(enemies, gs) ==
    [i \in 1..Len(enemies) |->
        [enemies[i] EXCEPT !.y = @ + enemies[i].speed * gs * (enemies[i].type + 1)]]

\* the advance at the head of the enemies filter

moveEnemies(enemies, gs) ==
    [i \in 1..Len(enemies) |-> [enemies[i] EXCEPT !.y = @ + enemies[i].speed * gs]]

\* mutant: the enemies filter looks at the active flag only
keepEnemies_noBound(moved) ==
    LET keep(e) == e.active IN SelectSeq(moved, keep)

\* the test at the end of the enemies filter

keepEnemies(moved) ==
    LET keep(e) == e.y < CANVAS_HEIGHT + e.height /\ e.active
    IN  SelectSeq(moved, keep)

\* the bullets pushed by the enemies whose Math.random() draw fell under the
\* firing rate, in list order; shooters is the set of their indices
enemyShots(moved, shooters) ==
    LET fires(i) == i \in shooters
        who == SelectSeq(Indices(moved), fires)
    IN  [k \in 1..Len(who) |-> fireEnemyBullet(moved[who[k]])]

\* mutant: a bullet that has already hit keeps hitting
bulletHitsEnemy_spent(bullet, enemy) ==
    enemy.active /\ checkCollision(bullet, enemy)

\* mutant: the pass looks at the rectangles only, not at the active flags
bulletHitsEnemy_overlap(bullet, enemy) ==
    checkCollision(bullet, enemy)

bulletHitsEnemy(bullet, enemy) ==
    bullet.active /\ enemy.active /\ checkCollision(bullet, enemy)

\* mutant: an enemy destroyed in the bullet pass still reaches the player
enemyHitsPlayer_ignoresActive(enemy, player) ==
    checkCollision(enemy, player)

enemyHitsPlayer(enemy, player) ==
    enemy.active /\ checkCollision(enemy, player)

\* mutant: an enemy bullet ends the game wherever it is
enemyBulletHitsPlayer_anywhere(bullet, player) ==
    bullet.active

enemyBulletHitsPlayer(bullet, player) ==
    bullet.active /\ checkCollision(bullet, player)

\* mutant: the explosion at the enemy's corner
hitExplosion_corner(enemy) == newExplosion(enemy.x, enemy.y)

\* the explosion pushed at the centre of a destroyed enemy
hitExplosion(enemy) ==
    newExplosion(enemy.x + enemy.width \div 2, enemy.y + enemy.height \div 2)

\* mutant: the type alone times 10
scoreFor_typeOnly(enemy) == enemy.type * 10

\* the amount of the updater prev => prev + (enemy.type + 1) * 10
scoreFor(enemy) == (enemy.type + 1) * 10

\* bullets.forEach(bullet => enemies.forEach(enemy => ...)) from pair (i, j) on;
\* st carries the two lists, the explosions and the queued score updaters
RECURSIVE bulletEnemyPass(_, _, _)
bulletEnemyPass(st, i, j) ==
    IF i > Len(st.bullets) THEN st
    ELSE IF j > Len(st.enemies) THEN bulletEnemyPass(st, i + 1, 1)
    ELSE LET b == st.bullets[i]
             e == st.enemies[j]
         IN  IF bulletHitsEnemy(b, e)
             THEN bulletEnemyPass(
                    [st EXCEPT !.bullets[i].active = FALSE,
                               !.enemies[j].active = FALSE,
                               !.explosions = Append(@, hitExplosion(e)),
                               !.scoreUpdates = Append(@, scoreFor(e))],
                    i, j + 1)
             ELSE bulletEnemyPass(st, i, j + 1)

\* one explosion at the player's centre per collider
playerExplosions(colliders, player) ==
    [k \in 1..Len(colliders) |->
        newExplosion(player.x + player.width \div 2, player.y + player.height \div 2)]

enemyPlayerPass(st) ==
    LET hits(e) == enemyHitsPlayer(e, st.player)
        colliders == SelectSeq(st.enemies, hits)
    IN  [st EXCEPT !.gameOver = @ \/ colliders # <<>>,
                   !.explosions = @ \o playerExplosions(colliders, st.player)]

enemyBulletPlayerPass(st) ==
    LET hits(b) == enemyBulletHitsPlayer(b, st.player)
        colliders == SelectSeq(st.enemyBullets, hits)
    IN  [st EXCEPT !.gameOver = @ \/ colliders # <<>>,
                   !.explosions = @ \o playerExplosions(colliders, st.player)]

\* mutant: the lists are kept as the collision passes left them
pruneInactive_none(list) == list

\* the three filters on the active flag at the end of the updater

pruneInactive(list) ==
    LET isActive(o) == o.active IN SelectSeq(list, isActive)

\* mutant: an explosion is kept one frame longer
ageExplosions_late(explosions) ==
    LET aged == [i \in 1..Len(explosions) |->
                    [explosions[i] EXCEPT !.frame = @ + 1]]
        keep(x) == x.frame <= ExplosionFrames
    IN  SelectSeq(aged, keep)

\* mutant: the explosions age and none is dropped
ageExplosions_keepsAll(explosions) ==
    [i \in 1..Len(explosions) |-> [explosions[i] EXCEPT !.frame = @ + 1]]

\* the explosions filter: every explosion ages by one frame, in place, and
\* stays while its age is below the threshold
ageExplosions(explosions) ==
    LET aged == [i \in 1..Len(explosions) |->
                    [explosions[i] EXCEPT !.frame = @ + 1]]
        keep(x) == x.frame < ExplosionFrames
    IN  SelectSeq(aged, keep)

\* the bullets of a list after the in-place advance, none filtered out
movedUp(bullets, gs) ==
    [i \in 1..Len(bullets) |-> [bullets[i] EXCEPT !.y = @ - bullets[i].speed * gs]]

movedDown(bullets, gs) ==
    [i \in 1..Len(bullets) |-> [bullets[i] EXCEPT !.y = @ + bullets[i].speed * gs]]

\* An array the updater has replaced by a filtered copy: the objects the
\* filter kept (those at the indices kept, in order) are shared with the copy
\* and carry the flags the collision passes wrote (after), the others are as
\* the advance left them.
sharedObjects(all, kept, after) ==
    [i \in 1..Len(all) |->
        IF \E k \in DOMAIN kept : kept[k] = i
        THEN after[CHOOSE k \in DOMAIN kept : kept[k] = i]
        ELSE all[i]]

\* what a handler that runs no collision pass leaves in ev
NoSnap == [player |-> Null, bullets |-> <<>>, enemies |-> <<>>,
           enemyBullets |-> <<>>, explosions |-> <<>>,
           gameOver |-> FALSE, scoreUpdates |-> <<>>]

\* mutant: no early return
isFrozen_never(prevState) == FALSE

\* the early return of the updater
isFrozen(prevState) == prevState.gameOver

\* mutant: the player passes run before the bullet-vs-enemy pass
collisionPasses_playerFirst(mid) ==
    bulletEnemyPass(enemyBulletPlayerPass(enemyPlayerPass(mid)), 1, 1)

\* the three collision passes, in the order the updater runs them
collisionPasses(mid) ==
    enemyBulletPlayerPass(enemyPlayerPass(bulletEnemyPass(mid, 1, 1)))

\* prevState once the updater has run: newState is a shallow copy, so the
\* player and the entities are the same objects and the arrays pushed to
\* before their filter are the same arrays; the timers, the flag and the
\* filtered arrays are assigned on the copy only.  allBullets, allEnemyBullets
\* and moved are the three arrays after the in-place advance.
aliasedState(prevState, post, moved, allBullets, allEnemyBullets) ==
    LET keptBullet(i) == allBullets[i].y > -allBullets[i].height /\ allBullets[i].active
        keptEnemyBullet(i) == /\ allEnemyBullets[i].y
                                   < CANVAS_HEIGHT + allEnemyBullets[i].height
                              /\ allEnemyBullets[i].active
        keptEnemy(i) == moved[i].y < CANVAS_HEIGHT + moved[i].height /\ moved[i].active
    IN  [prevState EXCEPT
           !.player = post.player,
           !.bullets = sharedObjects(allBullets,
                          SelectSeq(Indices(allBullets), keptBullet), post.bullets),
           !.enemyBullets = sharedObjects(allEnemyBullets,
                          SelectSeq(Indices(allEnemyBullets), keptEnemyBullet),
                          post.enemyBullets),
           !.enemies = sharedObjects(moved,
                          SelectSeq(Indices(moved), keptEnemy), post.enemies),
           !.explosions = [i \in 1..Len(post.explosions) |->
                             [post.explosions[i] EXCEPT !.frame = @ + 1]]]

\* the end of the updater, from the lists the collision passes leave (post)
stepResult(prevState, mid, post, moved, allBullets, allEnemyBullets, fired, spawned, currentTime) ==
    [state |->
        [player |-> post.player,
         bullets |-> pruneInactive(post.bullets),
         enemyBullets |-> pruneInactive(post.enemyBullets),
         enemies |-> pruneInactive(post.enemies),
         explosions |-> ageExplosions(post.explosions),
         lastEnemySpawn |-> IF spawned THEN currentTime
                            ELSE prevState.lastEnemySpawn,
         lastBulletFire |-> IF fired THEN currentTime
                            ELSE prevState.lastBulletFire,
         gameOver |-> post.gameOver],
     scoreUpdates |-> post.scoreUpdates,
     mid |-> mid, post |-> post,
     aliased |-> aliasedState(prevState, post, moved, allBullets, allEnemyBullets)]

\* The updater passed to setGameState.  draw is the spawnEnemy draw and
\* shooters the enemies whose firing draw succeeded.  Returns the next state,
\* the score updaters handed to startTransition, the entity lists as they
\* stand before (mid) and after (post) the three collision passes, and
\* prevState as the writes of the updater leave it (aliased).
updateGame(prevState, keys, touch, gs, eSize, currentTime, draw, shooters) ==
    IF isFrozen(prevState)
    THEN [state |-> prevState, scoreUpdates |-> <<>>, mid |-> NoSnap, post |-> NoSnap,
          aliased |-> prevState]
    ELSE
    LET player == moveByTouch(moveByKeys(prevState.player, keys, gs), touch, gs)
        fired == currentTime - prevState.lastBulletFire > FireCooldown
        bullets == advanceBullets(
                      autoFire(prevState.bullets, player,
                               prevState.lastBulletFire, currentTime), gs)
        enemyBullets1 == advanceEnemyBullets(prevState.enemyBullets, gs)
        spawned == currentTime - prevState.lastEnemySpawn > SpawnCooldown
        enemies0 == IF spawned
                    THEN Append(prevState.enemies,
                                spawnEnemy(eSize, draw.x, draw.speed, draw.type))
                    ELSE prevState.enemies
        moved == moveEnemies(enemies0, gs)
        enemyBullets == enemyBullets1 \o enemyShots(moved, shooters)
        enemies == keepEnemies(moved)
        mid == [player |-> player, bullets |-> bullets, enemies |-> enemies,
                enemyBullets |-> enemyBullets, explosions |-> prevState.explosions,
                gameOver |-> FALSE, scoreUpdates |-> <<>>]
    IN  stepResult(prevState, mid, collisionPasses(mid), moved,
                   movedUp(autoFire(prevState.bullets, player,
                                    prevState.lastBulletFire, currentTime), gs),
                   movedDown(prevState.enemyBullets, gs),
                   fired, spawned, currentTime)

----------------------------------------------------------------------------
(* Inputs of a frame *)

\* the draws of spawnEnemy: abscissa in [0, CANVAS_WIDTH - size), speed in [2, 5),
\* type in {0, 1}
NoDraw == [x |-> 0, speed |-> 0, type |-> 0]

\* the Math.random() draws of a frame that makes none
NoRandom == [draw |-> NoDraw, shooters |-> {}]
SpawnDraws(eSize) ==
    {d \in {[x |-> 400, speed |-> 2, type |-> 0],
            [x |-> 100, speed |-> 4, type |-> 1]} :
        d.x < CANVAS_WIDTH - eSize}

\* the lists a frame leaves stay within the bounds of the model
WithinBounds(st) ==
    /\ Len(st.bullets) <= MaxBullets
    /\ Len(st.enemies) <= MaxEnemies
    /\ Len(st.enemyBullets) <= MaxEnemyBullets

\* what a handler leaves in ev: its name, whether the game was over when it
\* ran and whether it called resetGame
Event(op, reset) == [op |-> op, wasOver |-> gameState.gameOver, reset |-> reset,
                     mid |-> NoSnap, post |-> NoSnap,
                     drawn |-> <<>>, touch |-> <<>>, idle |-> 0,
             random |-> NoRandom, key |-> <<>>]

\* the same for handleKeyDown, with the key of the event
KeyEvent(op, reset, key) == [Event(op, reset) EXCEPT !.key = <<key>>]

\* the same for a touch handler, with the point touched
TouchEvent(op, reset, t) == [Event(op, reset) EXCEPT !.touch = <<t>>]

\* an input event or a prop change, within the budget of the run
countInput == inputsLeft > 0 /\ inputsLeft' = inputsLeft - 1

----------------------------------------------------------------------------
(* Handlers *)

\* resetGame: setScore(0) and a fresh game state.  setScore(0) is queued behind
\* every pending updater and sets a value, so 0 is what the queue leaves.
freshGameState(size) ==
    [player |-> [x |-> 400, y |-> 500, width |-> size, height |-> size,
                 speed |-> 5, active |-> TRUE],
     bullets |-> <<>>, enemyBullets |-> <<>>, enemies |-> <<>>,
     explosions |-> <<>>,
     lastEnemySpawn |-> 0, lastBulletFire |-> 0, gameOver |-> FALSE]

\* mutant: the score is left as it is
resetGame_keepsScore ==
    /\ UNCHANGED <<score, scoreQueue>>
    /\ gameState' = freshGameState(playerSize)

resetGame ==
    /\ score' = 0
    /\ scoreQueue' = <<>>
    /\ gameState' = freshGameState(playerSize)

\* what render reads of a game state and of the score: the player unless the
\* game is over, the four lists, and under the game-over overlay the score
picture(state, sc) ==
    [player |-> IF state.gameOver THEN <<>> ELSE <<state.player>>,
     bullets |-> state.bullets, enemyBullets |-> state.enemyBullets,
     enemies |-> state.enemies, explosions |-> state.explosions,
     gameOver |-> state.gameOver,
     finalScore |-> IF state.gameOver THEN <<sc>> ELSE <<>>]

\* mutant: drawing the explosions consumes them
render_consumesExplosions(seen, world, surface) ==
    [drawn |-> <<picture(seen, world.score)>>,
     world |-> [world EXCEPT !.gameState.explosions = <<>>], fault |-> FALSE]

\* mutant: render uses the 2-D context without looking at it
render_unguarded(seen, world, surface) ==
    [drawn |-> IF surface = "ready" THEN <<picture(seen, world.score)>> ELSE <<>>,
     world |-> world, fault |-> surface # "ready"]

\* render: returns at once without a canvas or without its 2-D context;
\* otherwise draws the gameState and the score of its closure (seen).  It
\* assigns no state, the world is after it what it was before, and nothing in
\* it throws.
render(seen, world, surface) ==
    IF surface # "ready"
    THEN [drawn |-> <<>>, world |-> world, fault |-> FALSE]
    ELSE [drawn |-> <<picture(seen, world.score)>>, world |-> world,
          fault |-> FALSE]

\* The component's hold on the host.  tracked: the frame request whose id is
\* in gameLoopRef.current is still pending; stray: pending frame requests
\* whose id gameLoopRef.current no longer holds; surface: what render finds
\* in canvasRef.current and canvas.getContext("2d").
Surfaces == {"ready", "noCanvas", "noContext"}
afterMount == [mounted |-> TRUE, listening |-> TRUE, tracked |-> TRUE, stray |-> 0,
               surface |-> "ready"]

\* gameLoopRef.current = requestAnimationFrame(gameLoop)
requestFrame(l) ==
    [l EXCEPT !.tracked = TRUE, !.stray = @ + (IF l.tracked THEN 1 ELSE 0)]

\* the host takes one pending frame request and calls it
takenFrames(l) ==
    (IF l.tracked THEN {[l EXCEPT !.tracked = FALSE]} ELSE {})
      \cup (IF l.stray > 0 THEN {[l EXCEPT !.stray = @ - 1]} ELSE {})

\* mutant: the cleanup leaves the frame request pending
cleanup_keepsFrame(l) == [l EXCEPT !.listening = FALSE]

\* the cleanup of the init effect: both key listeners removed, the request in
\* gameLoopRef.current cancelled
cleanup(l) == [l EXCEPT !.listening = FALSE, !.tracked = FALSE]

\* mutant: the effect registers the listeners again but requests no frame
setup_noFrame(l) == [l EXCEPT !.listening = TRUE]

\* the body of the init effect: both key listeners added, a frame requested
setup(l) == requestFrame([l EXCEPT !.listening = TRUE])

\* gameLoop: updateGame, render, next frame request; a fault in render would
\* leave the request unmade.  render draws the
\* gameState of its closure: the object the updater is given, either before
\* the updater has run (React runs it at the next render) or after it has run
\* inside setGameState (React computes the state eagerly when no update is
\* pending) and has written to the objects the two states share.
gameLoop ==
    /\ framesLeft > 0
    /\ \E dt \in ClockSteps :
         LET currentTime == now + dt
             playing == ~isFrozen(gameState)
             spawned == playing /\ currentTime - gameState.lastEnemySpawn > SpawnCooldown
             nEnemies == Len(gameState.enemies) + (IF spawned THEN 1 ELSE 0)
         IN  \E draw \in (IF spawned THEN SpawnDraws(enemySize) ELSE {NoDraw}) :
             \E shooters \in (IF playing THEN SUBSET (1..nEnemies) ELSE {{}}) :
               \E r \in {updateGame(gameState, keysRef, touchRef, gameSpeed,
                                     enemySize, currentTime, draw, shooters)} :
                 /\ WithinBounds(r.state)
                 /\ \E seen \in {gameState, r.aliased} :
                    \E shown \in {render(seen, [gameState |-> r.state,
                                                 score |-> score],
                                          loop.surface)} :
                      /\ gameState' = shown.world.gameState
                      /\ score' = shown.world.score
                      /\ ev' = [op |-> "updateGame",
                                wasOver |-> gameState.gameOver,
                                reset |-> FALSE, mid |-> r.mid, post |-> r.post,
                                drawn |-> shown.drawn,
                                touch |-> <<>>,
                                idle |-> IF ~playing
                                         THEN (IF ev.op = "updateGame"
                                               THEN ev.idle ELSE 0) + 1
                                         ELSE 0,
                                random |-> [draw |-> draw, shooters |-> shooters],
                                key |-> <<>>]
                      /\ loop' \in {IF shown.fault THEN taken ELSE requestFrame(taken) :
                                      taken \in takenFrames(loop)}
                 /\ scoreQueue' = scoreQueue \o r.scoreUpdates
                 /\ now' = currentTime
    /\ framesLeft' = framesLeft - 1
    /\ UNCHANGED <<keysRef, touchRef, gameSpeed, playerSize, enemySize,
                   inputsLeft>>

\* React applies the score updaters queued by startTransition
scoreTransition ==
    /\ loop.mounted
    /\ scoreQueue # <<>>
    /\ score' = score + SumSeq(scoreQueue)
    /\ scoreQueue' = <<>>
    /\ ev' = Event("setScore", FALSE)
    /\ UNCHANGED <<gameState, keysRef, touchRef, gameSpeed, playerSize,
                   enemySize, now, framesLeft, inputsLeft, loop>>

handleKeyDown ==
    \E key \in ArrowKeys \cup OtherKeys :
      /\ loop.listening
      /\ keysRef' = IF key \in ArrowKeys THEN keysRef \cup {key} ELSE keysRef
      /\ IF gameState.gameOver
         THEN resetGame /\ ev' = KeyEvent("handleKeyDown", TRUE, key)
         ELSE UNCHANGED <<gameState, score, scoreQueue>>
                /\ ev' = KeyEvent("handleKeyDown", FALSE, key)
      /\ countInput
      /\ UNCHANGED <<touchRef, gameSpeed, playerSize, enemySize, now, framesLeft,
                     loop>>

handleKeyUp ==
    \E key \in ArrowKeys \cup OtherKeys :
      /\ loop.listening
      /\ keysRef' = keysRef \ {key}
      /\ ev' = Event("handleKeyUp", FALSE)
      /\ countInput
      /\ UNCHANGED <<gameState, score, scoreQueue, touchRef, gameSpeed,
                     playerSize, enemySize, now, framesLeft, loop>>

\* the one direction a touch at (touchX, touchY) selects on a canvas whose
\* bounding rectangle has centre (centerX, centerY)
touchDirection(touchX, touchY, centerX, centerY) ==
    LET isLeft == touchX < centerX
        isRight == touchX > centerX
        isUp == touchY < centerY
        isDown == touchY > centerY
        horizontalDistance == IF touchX < centerX THEN centerX - touchX
                              ELSE touchX - centerX
        verticalDistance == IF touchY < centerY THEN centerY - touchY
                            ELSE touchY - centerY
    IN  IF horizontalDistance > verticalDistance
        THEN (IF isLeft THEN {"ArrowLeft"}
              ELSE IF isRight THEN {"ArrowRight"} ELSE {})
        ELSE (IF isUp THEN {"ArrowUp"}
              ELSE IF isDown THEN {"ArrowDown"} ELSE {})

RectCenterX == 400
RectCenterY == 300
TouchPoints == {<<390, 300>>, <<410, 300>>, <<400, 290>>, <<400, 310>>,
                <<400, 300>>, <<410, 310>>}

handleTouchStart ==
    \E t \in TouchPoints :
      /\ loop.mounted
      /\ keysRef' = keysRef \cup touchDirection(t[1], t[2], RectCenterX, RectCenterY)
      /\ IF gameState.gameOver
         THEN resetGame /\ ev' = TouchEvent("handleTouchStart", TRUE, t)
         ELSE UNCHANGED <<gameState, score, scoreQueue>>
                /\ ev' = TouchEvent("handleTouchStart", FALSE, t)
      /\ countInput
      /\ UNCHANGED <<touchRef, gameSpeed, playerSize, enemySize, now, framesLeft,
                     loop>>

handleTouchMove ==
    \E t \in TouchPoints :
      /\ loop.mounted
      /\ keysRef' = (keysRef \ ArrowKeys)
                      \cup touchDirection(t[1], t[2], RectCenterX, RectCenterY)
      /\ ev' = TouchEvent("handleTouchMove", FALSE, t)
      /\ countInput
      /\ UNCHANGED <<gameState, score, scoreQueue, touchRef, gameSpeed,
                     playerSize, enemySize, now, framesLeft, loop>>

handleTouchEnd ==
    /\ loop.mounted
    /\ keysRef' = keysRef \ ArrowKeys
    /\ ev' = Event("handleTouchEnd", FALSE)
    /\ countInput
    /\ UNCHANGED <<gameState, score, scoreQueue, touchRef, gameSpeed,
                   playerSize, enemySize, now, framesLeft, loop>>

\* mutant: a click restarts the game whatever its state
handleCanvasClick_always ==
    /\ loop.mounted
    /\ resetGame /\ ev' = Event("handleCanvasClick", TRUE)
    /\ countInput
    /\ UNCHANGED <<keysRef, touchRef, gameSpeed, playerSize, enemySize, now,
                   framesLeft, loop>>

handleCanvasClick ==
    /\ loop.mounted
    /\ IF gameState.gameOver
       THEN resetGame /\ ev' = Event("handleCanvasClick", TRUE)
       ELSE UNCHANGED <<gameState, score, scoreQueue>>
              /\ ev' = Event("handleCanvasClick", FALSE)
    /\ countInput
    /\ UNCHANGED <<keysRef, touchRef, gameSpeed, playerSize, enemySize, now,
                   framesLeft, loop>>

\* mutant: the effect rebuilds the whole state
resizePlayer_fresh(state, size) == initialGameState(size)

\* mutant: the effect also puts the resized player back on its start position
resizePlayer_recentres(state, size) ==
    [state EXCEPT !.player.width = size, !.player.height = size,
                  !.player.x = PlayerStartX, !.player.y = PlayerStartY]

\* the playerSize prop changes and the effect resizes the current player
resizePlayer(state, size) ==
    [state EXCEPT !.player.width = size, !.player.height = size]

playerSizeEffect ==
    \E size \in PlayerSizes \ {playerSize} :
      /\ loop.mounted
      /\ playerSize' = size
      /\ gameState' = resizePlayer(gameState, size)
      /\ ev' = Event("playerSize", FALSE)
      /\ countInput
      /\ UNCHANGED <<score, scoreQueue, keysRef, touchRef, gameSpeed,
                     enemySize, now, framesLeft, loop>>

\* the init effect runs again: React has rendered with a new gameLoop or
\* handleKeyDown (they change with gameState, score and the props)
initEffect ==
    /\ loop.mounted
    /\ loop' = setup(cleanup(loop))
    /\ ev' = Event("initEffect", FALSE)
    /\ countInput
    /\ UNCHANGED <<gameState, score, scoreQueue, keysRef, touchRef, gameSpeed,
                   playerSize, enemySize, now, framesLeft>>

\* the component unmounts: the cleanup of the init effect runs and the canvas
\* with its touch and click handlers is gone
unmount ==
    /\ loop.mounted
    /\ loop' = [cleanup(loop) EXCEPT !.mounted = FALSE]
    /\ ev' = Event("unmount", FALSE)
    /\ UNCHANGED <<gameState, score, scoreQueue, keysRef, touchRef, gameSpeed,
                   playerSize, enemySize, now, framesLeft, inputsLeft>>

----------------------------------------------------------------------------
(* Specifications *)

\* the component as constructed: useState initial values, empty refs
Init ==
    /\ gameSpeed \in GameSpeeds
    /\ playerSize \in PlayerSizes
    /\ enemySize \in EnemySizes
    /\ gameState = initialGameState(playerSize)
    /\ score = 0
    /\ scoreQueue = <<>>
    /\ keysRef = {}
    /\ touchRef = Null
    /\ now \in ClockStarts
    /\ framesLeft = MaxTicks
    /\ inputsLeft = MaxInputs
    /\ loop = afterMount
    /\ ev = [op |-> "init", wasOver |-> FALSE, reset |-> FALSE,
             mid |-> NoSnap, post |-> NoSnap,
             drawn |-> <<>>, touch |-> <<>>, idle |-> 0,
             random |-> NoRandom, key |-> <<>>]

Next ==
    \/ gameLoop
    \/ scoreTransition
    \/ handleKeyDown
    \/ handleKeyUp
    \/ handleTouchStart
    \/ handleTouchMove
    \/ handleTouchEnd
    \/ handleCanvasClick
    \/ playerSizeEffect

Spec == Init /\ [][Next]_vars

----------------------------------------------------------------------------
(* Worlds in the middle of a game.  Every entity stands where the factories
   and the per-frame advance put it: an enemy spawned with the given draws
   and advanced a whole number of frames, a bullet fired by the player at
   its start position and advanced a whole number of frames. *)

lastAbove(limit, step) == step * (limit \div step)

\* the enemy spawned at x with the given speed and type, advanced as far as
\* its bottom edge stays at or above the ordinate limit
enemyAbove(gs, eSize, x, speed, type, limit) ==
    [spawnEnemy(eSize, x, speed, type) EXCEPT
        !.y = lastAbove(limit, speed * gs) - eSize]

\* the bullet the player fired from its start position, a number of frames ago
firedBullet(gs, size, frames) ==
    [fireBullet(newPlayer(size)) EXCEPT !.y = @ - 8 * gs * frames]

\* the bullet an enemy above the player fired, now just above the player
enemyBulletAbove(gs, limit) ==
    [x |-> 414, y |-> lastAbove(limit - 8, 2 * gs),
     width |-> 4, height |-> 8, speed |-> 4, active |-> TRUE]

MidScenes(gs, size, eSize) ==
    LET midBullet == firedBullet(gs, size, 24 \div gs)
        topBullet == firedBullet(gs, size, PlayerStartY \div (8 * gs))
        diver(speed, type) == enemyAbove(gs, eSize, 400, speed, type, PlayerStartY)
        first == enemyAbove(gs, eSize, 400, 2, 1, midBullet.y)
        second == enemyAbove(gs, eSize, 404, 4, 0, midBullet.y)
        far == enemyAbove(gs, eSize, 100, 2, 0, 96)
        shot == enemyBulletAbove(gs, PlayerStartY)
        old == [x |-> 116, y |-> 64, frame |-> 8, active |-> TRUE]
    IN  { \* an enemy about to reach the player, no shot due
          [bullets |-> <<>>, enemies |-> <<diver(2, 0)>>, enemyBullets |-> <<>>,
           explosions |-> <<>>, fireAgo |-> 0, score |-> 0, queue |-> <<>>,
           descent |-> 0],
          \* the same enemy, with the player's shot due this frame
          [bullets |-> <<>>, enemies |-> <<diver(4, 1)>>, enemyBullets |-> <<>>,
           explosions |-> <<>>, fireAgo |-> 1, score |-> 0, queue |-> <<>>,
           descent |-> 0],
          \* one bullet about to meet one enemy
          [bullets |-> <<midBullet>>, enemies |-> <<first>>, enemyBullets |-> <<>>,
           explosions |-> <<>>, fireAgo |-> 0, score |-> 10, queue |-> <<>>,
           descent |-> 0],
          \* one bullet about to meet two enemies at once
          [bullets |-> <<midBullet>>, enemies |-> <<first, second>>,
           enemyBullets |-> <<>>, explosions |-> <<old>>, fireAgo |-> 0,
           score |-> 30, queue |-> <<20>>, descent |-> 0],
          \* a bullet hits while another enemy reaches the player
          [bullets |-> <<midBullet>>, enemies |-> <<second, diver(2, 0)>>,
           enemyBullets |-> <<>>, explosions |-> <<>>, fireAgo |-> 0,
           score |-> 0, queue |-> <<>>,
           descent |-> 0],
          \* an enemy bullet about to reach the player, a bullet leaving the top
          [bullets |-> <<topBullet>>, enemies |-> <<far>>, enemyBullets |-> <<shot>>,
           explosions |-> <<old>>, fireAgo |-> 0, score |-> 20, queue |-> <<>>,
           descent |-> 0],
          \* a quiet moment after the player has flown downwards for two frames
          [bullets |-> <<>>, enemies |-> <<far>>, enemyBullets |-> <<>>,
           explosions |-> <<>>, fireAgo |-> 0, score |-> 10, queue |-> <<>>,
           descent |-> 2] }

midGameState(gs, size, t, scene) ==
    [player |-> [newPlayer(size) EXCEPT
                    !.y = @ + scene.descent * PlayerSpeed * gs],
     bullets |-> scene.bullets, enemyBullets |-> scene.enemyBullets,
     enemies |-> scene.enemies, explosions |-> scene.explosions,
     lastEnemySpawn |-> t - 800, lastBulletFire |-> t - scene.fireAgo,
     gameOver |-> FALSE]

InitMid ==
    /\ gameSpeed \in GameSpeeds
    /\ playerSize \in PlayerSizes
    /\ enemySize \in EnemySizes
    /\ now \in ClockStarts
    /\ \E scene \in MidScenes(gameSpeed, playerSize, enemySize) :
         /\ gameState = midGameState(gameSpeed, playerSize, now, scene)
         /\ score = scene.score
         /\ scoreQueue = scene.queue
    /\ keysRef = {}
    /\ touchRef = Null
    /\ framesLeft = MaxTicks - 1
    /\ inputsLeft = MaxInputs - 1
    /\ loop = afterMount
    /\ ev = [op |-> "init", wasOver |-> FALSE, reset |-> FALSE,
             mid |-> NoSnap, post |-> NoSnap,
             drawn |-> <<>>, touch |-> <<>>, idle |-> 0,
             random |-> NoRandom, key |-> <<>>]

SpecMid == InitMid /\ [][Next]_vars

\* The test world of the first-tick scenario: a fresh world (timers 0, no
\* bullets) handed to updateGame with one active enemy at the player's position.
InitFirstTick ==
    /\ gameSpeed \in GameSpeeds
    /\ playerSize \in PlayerSizes
    /\ enemySize \in EnemySizes
    /\ now \in ClockStarts
    /\ \E speed \in {2, 4}, type \in {0, 1} :
         gameState = [initialGameState(playerSize) EXCEPT
                        !.enemies = << [spawnEnemy(enemySize, PlayerStartX, speed, type)
                                          EXCEPT !.y = PlayerStartY] >>]
    /\ score = 0
    /\ scoreQueue = <<>>
    /\ keysRef = {}
    /\ touchRef = Null
    /\ framesLeft = MaxTicks - 1
    /\ inputsLeft = MaxInputs - 1
    /\ loop = afterMount
    /\ ev = [op |-> "init", wasOver |-> FALSE, reset |-> FALSE,
             mid |-> NoSnap, post |-> NoSnap,
             drawn |-> <<>>, touch |-> <<>>, idle |-> 0,
             random |-> NoRandom, key |-> <<>>]

SpecFirstTick == InitFirstTick /\ [][Next]_vars

\* Worlds at the edges of the rules: an enemy flush with the player's side
\* and one arriving flush with its top, the player at the left edge after
\* holding ArrowLeft, and the frame before an enemy bullet ends the game.
EdgeScenes(gs, size, eSize) ==
    LET beside == enemyAbove(gs, eSize, PlayerStartX + size, 2, 0, PlayerStartY + eSize)
        above == enemyAbove(gs, eSize, PlayerStartX, 2, 1, PlayerStartY - 2 * gs)
        step == PlayerSpeed * gs
        atLeftEdge == [newPlayer(size) EXCEPT
                         !.x = @ - step * ((PlayerStartX + step - 1) \div step)]
        shot == enemyBulletAbove(gs, PlayerStartY)
        old == [x |-> 116, y |-> 64, frame |-> 8, active |-> TRUE]
        last == [x |-> 116, y |-> 64, frame |-> 9, active |-> TRUE]
    IN  { [player |-> newPlayer(size), enemies |-> <<beside, above>>,
           enemyBullets |-> <<>>, explosions |-> <<>>, keys |-> {},
           score |-> 0, queue |-> <<>>],
          [player |-> atLeftEdge, enemies |-> <<>>,
           enemyBullets |-> <<>>, explosions |-> <<last>>, keys |-> {"ArrowLeft"},
           score |-> 10, queue |-> <<>>],
          [player |-> newPlayer(size), enemies |-> <<>>,
           enemyBullets |-> <<shot>>, explosions |-> <<old>>, keys |-> {},
           score |-> 30, queue |-> <<20>>] }

InitEdge ==
    /\ gameSpeed \in GameSpeeds
    /\ playerSize \in PlayerSizes
    /\ enemySize \in EnemySizes
    /\ now \in ClockStarts
    /\ \E scene \in EdgeScenes(gameSpeed, playerSize, enemySize) :
         /\ gameState = [player |-> scene.player,
                         bullets |-> <<>>, enemyBullets |-> scene.enemyBullets,
                         enemies |-> scene.enemies, explosions |-> scene.explosions,
                         lastEnemySpawn |-> now, lastBulletFire |-> now,
                         gameOver |-> FALSE]
         /\ score = scene.score
         /\ scoreQueue = scene.queue
         /\ keysRef = scene.keys
    /\ touchRef = Null
    /\ framesLeft = MaxTicks
    /\ inputsLeft = MaxInputs - 1
    /\ loop = afterMount
    /\ ev = [op |-> "init", wasOver |-> FALSE, reset |-> FALSE,
             mid |-> NoSnap, post |-> NoSnap,
             drawn |-> <<>>, touch |-> <<>>, idle |-> 0,
             random |-> NoRandom, key |-> <<>>]

SpecEdge == InitEdge /\ [][Next]_vars

\* Worlds where entities are about to leave the playfield: a bullet near the
\* top, an enemy bullet and an enemy near the bottom, and the same enemy
\* while another one reaches the player.
ExitScenes(gs, size, eSize) ==
    LET topBullet == firedBullet(gs, size, PlayerStartY \div (8 * gs))
        sinking == enemyAbove(gs, eSize, 100, 3, 1, CANVAS_HEIGHT + 2 * eSize - 1)
        falling == [fireEnemyBullet(sinking) EXCEPT !.x = 700, !.y = CANVAS_HEIGHT + 6]
        diver == enemyAbove(gs, eSize, PlayerStartX, 2, 0, PlayerStartY)
    IN  { [bullets |-> <<topBullet>>, enemies |-> <<sinking>>,
           enemyBullets |-> <<>>, score |-> 10, queue |-> <<10>>],
          [bullets |-> <<topBullet>>, enemies |-> <<>>,
           enemyBullets |-> <<falling>>, score |-> 0, queue |-> <<>>],
          [bullets |-> <<>>, enemies |-> <<sinking, diver>>,
           enemyBullets |-> <<>>, score |-> 20, queue |-> <<>>] }

InitExit ==
    /\ gameSpeed \in GameSpeeds
    /\ playerSize \in PlayerSizes
    /\ enemySize \in EnemySizes
    /\ now \in ClockStarts
    /\ \E scene \in ExitScenes(gameSpeed, playerSize, enemySize) :
         /\ gameState = [player |-> newPlayer(playerSize),
                         bullets |-> scene.bullets,
                         enemyBullets |-> scene.enemyBullets,
                         enemies |-> scene.enemies, explosions |-> <<>>,
                         lastEnemySpawn |-> now, lastBulletFire |-> now,
                         gameOver |-> FALSE]
         /\ score = scene.score
         /\ scoreQueue = scene.queue
    /\ keysRef = {}
    /\ touchRef = Null
    /\ framesLeft = MaxTicks
    /\ inputsLeft = MaxInputs - 1
    /\ loop = afterMount
    /\ ev = [op |-> "init", wasOver |-> FALSE, reset |-> FALSE,
             mid |-> NoSnap, post |-> NoSnap,
             drawn |-> <<>>, touch |-> <<>>, idle |-> 0,
             random |-> NoRandom, key |-> <<>>]

SpecExit == InitExit /\ [][Next]_vars

\* Worlds with two enemies of which a bullet is about to destroy one or
\* both, for the comparison of runs that differ in the kinds of the enemies.
InitKinds ==
    /\ gameSpeed \in GameSpeeds
    /\ playerSize \in PlayerSizes
    /\ enemySize \in EnemySizes
    /\ now \in ClockStarts
    /\ \E scene \in {sc \in MidScenes(gameSpeed, playerSize, enemySize) :
                        sc.bullets # <<>> /\ Len(sc.enemies) = 2} :
         /\ gameState = midGameState(gameSpeed, playerSize, now, scene)
         /\ score = scene.score
         /\ scoreQueue = scene.queue
    /\ keysRef = {}
    /\ touchRef = Null
    /\ framesLeft = MaxTicks - 2
    /\ inputsLeft = MaxInputs - 1
    /\ loop = afterMount
    /\ ev = [op |-> "init", wasOver |-> FALSE, reset |-> FALSE,
             mid |-> NoSnap, post |-> NoSnap,
             drawn |-> <<>>, touch |-> <<>>, idle |-> 0,
             random |-> NoRandom, key |-> <<>>]

\* the frames, the keyboard and the prop change: what a tick reads of the
\* input is the held-key set, which the keyboard alone can make any set
NextKinds ==
    \/ gameLoop
    \/ scoreTransition
    \/ handleKeyDown
    \/ handleKeyUp
    \/ playerSizeEffect

SpecKinds == InitKinds /\ [][NextKinds]_vars

\* A quiet moment of a game, with room for two input events and a frame:
\* the player at its start position, no entity, one score update pending.
InitInput ==
    /\ gameSpeed \in GameSpeeds
    /\ playerSize \in PlayerSizes
    /\ enemySize \in EnemySizes
    /\ now \in ClockStarts
    /\ gameState = [initialGameState(playerSize) EXCEPT
                      !.lastEnemySpawn = now, !.lastBulletFire = now]
    /\ score = 10
    /\ scoreQueue = <<10>>
    /\ keysRef = {}
    /\ touchRef = Null
    /\ framesLeft = MaxTicks - 2
    /\ inputsLeft = MaxInputs
    /\ loop = afterMount
    /\ ev = [op |-> "init", wasOver |-> FALSE, reset |-> FALSE,
             mid |-> NoSnap, post |-> NoSnap,
             drawn |-> <<>>, touch |-> <<>>, idle |-> 0,
             random |-> NoRandom, key |-> <<>>]

SpecInput == InitInput /\ [][Next]_vars

\* The sizes a host can hand to the component: playerSize and enemySize are
\* plain number props, used as they come; the property controls bound them
\* only in the editor.
PropSizes == {0, 32}

\* A game on a host that passes any of these sizes, one enemy spawn due.
InitConfig ==
    /\ gameSpeed \in GameSpeeds
    /\ playerSize \in PropSizes
    /\ enemySize \in PropSizes
    /\ now \in ClockStarts
    /\ gameState = [initialGameState(playerSize) EXCEPT
                      !.lastEnemySpawn = now - SpawnCooldown,
                      !.lastBulletFire = now]
    /\ score = 10
    /\ scoreQueue = <<10>>
    /\ keysRef = {}
    /\ touchRef = Null
    /\ framesLeft = MaxTicks - 1
    /\ inputsLeft = MaxInputs - 1
    /\ loop = afterMount
    /\ ev = [op |-> "init", wasOver |-> FALSE, reset |-> FALSE,
             mid |-> NoSnap, post |-> NoSnap,
             drawn |-> <<>>, touch |-> <<>>, idle |-> 0,
             random |-> NoRandom, key |-> <<>>]

SpecConfig == InitConfig /\ [][Next]_vars

\* A game on a host where the canvas, or its 2-D context, may be missing:
\* one bullet about to meet one enemy.
InitSurface ==
    /\ gameSpeed \in GameSpeeds
    /\ playerSize \in PlayerSizes
    /\ enemySize \in EnemySizes
    /\ now \in ClockStarts
    /\ \E scene \in {sc \in MidScenes(gameSpeed, playerSize, enemySize) :
                        sc.bullets # <<>> /\ Len(sc.enemies) = 1} :
         /\ gameState = midGameState(gameSpeed, playerSize, now, scene)
         /\ score = scene.score
         /\ scoreQueue = scene.queue
    /\ keysRef = {}
    /\ touchRef = Null
    /\ framesLeft = MaxTicks - 1
    /\ inputsLeft = MaxInputs - 1
    /\ \E surface \in Surfaces : loop = [afterMount EXCEPT !.surface = surface]
    /\ ev = [op |-> "init", wasOver |-> FALSE, reset |-> FALSE,
             mid |-> NoSnap, post |-> NoSnap,
             drawn |-> <<>>, touch |-> <<>>, idle |-> 0,
             random |-> NoRandom, key |-> <<>>]

SpecSurface == InitSurface /\ [][Next]_vars

\* The life of the component on the host: besides the game, the init effect
\* running again and the unmount.
InitLoop ==
    /\ gameSpeed \in GameSpeeds
    /\ playerSize \in PlayerSizes
    /\ enemySize \in EnemySizes
    /\ now \in ClockStarts
    /\ \E scene \in {sc \in MidScenes(gameSpeed, playerSize, enemySize) :
                        sc.bullets # <<>> /\ Len(sc.enemies) = 1} :
         /\ gameState = midGameState(gameSpeed, playerSize, now, scene)
         /\ score = scene.score
         /\ scoreQueue = scene.queue
    /\ keysRef = {}
    /\ touchRef = Null
    /\ framesLeft = MaxTicks - 1
    /\ inputsLeft = MaxInputs - 1
    /\ loop = afterMount
    /\ ev = [op |-> "init", wasOver |-> FALSE, reset |-> FALSE,
             mid |-> NoSnap, post |-> NoSnap,
             drawn |-> <<>>, touch |-> <<>>, idle |-> 0,
             random |-> NoRandom, key |-> <<>>]

NextLoop ==
    \/ Next
    \/ initEffect
    \/ unmount

SpecLoop == InitLoop /\ [][NextLoop]_vars

\* The life of the component around the end of a game: an enemy about to
\* reach the player, one score update pending, the init effect running again
\* at any moment between two frames.
InitDriver ==
    /\ gameSpeed \in GameSpeeds
    /\ playerSize \in PlayerSizes
    /\ enemySize \in EnemySizes
    /\ now \in ClockStarts
    /\ \E scene \in {sc \in MidScenes(gameSpeed, playerSize, enemySize) :
                        sc.bullets = <<>> /\ sc.fireAgo = 0 /\ sc.descent = 0} :
         gameState = midGameState(gameSpeed, playerSize, now, scene)
    /\ score = 10
    /\ scoreQueue = <<10>>
    /\ keysRef = {}
    /\ touchRef = Null
    /\ framesLeft = MaxTicks - 1
    /\ inputsLeft = MaxInputs - 1
    /\ loop = afterMount
    /\ ev = [op |-> "init", wasOver |-> FALSE, reset |-> FALSE,
             mid |-> NoSnap, post |-> NoSnap,
             drawn |-> <<>>, touch |-> <<>>, idle |-> 0,
             random |-> NoRandom, key |-> <<>>]

SpecDriver == InitDriver /\ [][NextLoop]_vars

\* the frames and the handlers of the canvas: a game played by touch alone
NextTouch ==
    \/ gameLoop
    \/ scoreTransition
    \/ handleTouchStart
    \/ handleTouchMove
    \/ handleTouchEnd
    \/ handleCanvasClick

SpecTouch == InitInput /\ [][NextTouch]_vars

\* Worlds where several rectangles meet in one frame.  The volley: the player
\* fired, flew upwards for two frames and fired again, so that the second
\* bullet follows the first closely, and an enemy is about to reach both.
\* The others: one bullet about to meet two enemies.
VolleyScenes(gs, size, eSize) ==
    LET risen == [newPlayer(size) EXCEPT !.y = @ - 2 * PlayerSpeed * gs]
        leading == firedBullet(gs, size, 3)
        trailing == [fireBullet(risen) EXCEPT !.y = @ - 8 * gs]
        target == enemyAbove(gs, eSize, PlayerStartX, 4, 0, leading.y)
    IN  {[bullets |-> <<leading, trailing>>, enemies |-> <<target>>,
          enemyBullets |-> <<>>, explosions |-> <<>>, fireAgo |-> 0,
          score |-> 0, queue |-> <<>>, descent |-> -2]}
          \cup {sc \in MidScenes(gs, size, eSize) :
                   sc.bullets # <<>> /\ Len(sc.enemies) = 2}

InitVolley ==
    /\ gameSpeed \in GameSpeeds
    /\ playerSize \in PlayerSizes
    /\ enemySize \in EnemySizes
    /\ now \in ClockStarts
    /\ \E scene \in VolleyScenes(gameSpeed, playerSize, enemySize) :
         /\ gameState = midGameState(gameSpeed, playerSize, now, scene)
         /\ score = scene.score
         /\ scoreQueue = scene.queue
    /\ keysRef = {}
    /\ touchRef = Null
    /\ framesLeft = MaxTicks - 2
    /\ inputsLeft = MaxInputs - 1
    /\ loop = afterMount
    /\ ev = [op |-> "init", wasOver |-> FALSE, reset |-> FALSE,
             mid |-> NoSnap, post |-> NoSnap,
             drawn |-> <<>>, touch |-> <<>>, idle |-> 0,
             random |-> NoRandom, key |-> <<>>]

SpecVolley == InitVolley /\ [][NextKinds]_vars

----------------------------------------------------------------------------
(* Properties *)

\* a step of gameLoop
FrameStep == framesLeft' # framesLeft

\* the state right after a Simulation Step run while Playing
AfterPlayingStep == ev.op = "updateGame" /\ ~ev.wasOver

\* the score once React has applied the queued updaters
ScoreDue == score + SumSeq(scoreQueue)

\* For the lists at the start of the collision passes: which enemy each bullet
\* destroys (0 for none).  Bullet i takes the first enemy in list order that
\* it intersects and that no earlier bullet has taken.
firstMatch(bullets, enemies) ==
    CHOOSE f \in [1..Len(bullets) -> 0..Len(enemies)] :
      \A i \in 1..Len(bullets) :
        LET free == {j \in 1..Len(enemies) :
                        /\ checkCollision(bullets[i], enemies[j])
                        /\ \A k \in 1..(i - 1) : f[k] # j}
        IN  IF free = {} THEN f[i] = 0
            ELSE f[i] \in free /\ \A j \in free : f[i] <= j

HitBullets(f) == {i \in DOMAIN f : f[i] # 0}
HitEnemies(f) == {f[i] : i \in HitBullets(f)}

RECURSIVE SumOver(_, _)
SumOver(S, g) ==
    IF S = {} THEN 0
    ELSE LET x == CHOOSE x \in S : TRUE IN g[x] + SumOver(S \ {x}, g)

\* C1: when gameOver is already true a Simulation Step changes nothing: the
\* player, the four entity lists, both timestamps and the gameOver flag (and
\* the score) are the same after the step, whatever keys are held
C1_FrozenStepIsNoOp ==
    [][(FrameStep /\ gameState.gameOver)
         => (gameState' = gameState /\ score' = score /\ scoreQueue' = scoreQueue)]_vars

C1_Witness ==
    /\ ev.op = "updateGame" /\ ev.wasOver
    /\ gameState.gameOver
    /\ gameState.enemies # <<>>
    /\ keysRef # {}

\* C2: at the end of every Simulation Step run while Playing the player lies
\* within [0, 800 - width] x [0, 600 - height]
C2_PlayerInBounds ==
    AfterPlayingStep =>
        /\ 0 <= gameState.player.x
        /\ gameState.player.x <= CANVAS_WIDTH - gameState.player.width
        /\ 0 <= gameState.player.y
        /\ gameState.player.y <= CANVAS_HEIGHT - gameState.player.height

\* C3: without a reset the score never decreases; a Simulation Step adds
\* exactly (type + 1) * 10 for every enemy a bullet destroys in it, and
\* nothing when no bullet hits
C3_ScoreGrowsByHits ==
    [][IF FrameStep
       THEN LET f == IF ev'.wasOver THEN <<>>
                     ELSE firstMatch(ev'.mid.bullets, ev'.mid.enemies)
                points == [j \in HitEnemies(f) |-> (ev'.mid.enemies[j].type + 1) * 10]
            IN  /\ ScoreDue' = ScoreDue + SumOver(HitEnemies(f), points)
                /\ score' = score
       ELSE \/ ev'.reset
            \/ (ScoreDue' = ScoreDue /\ score' >= score)]_vars

C3_Witness ==
    /\ AfterPlayingStep
    /\ Len(ev.post.scoreUpdates) = 1
    /\ ev.post.scoreUpdates[1] = 20
    /\ score > 0

\* C4: in the bullet-vs-enemy pass a bullet destroys at most one enemy and
\* queues at most one score increment, also when it overlaps several enemies:
\* it takes the first enemy in list order that is still active, the other
\* enemies it overlaps stay active
C4_FirstMatchWins ==
    AfterPlayingStep =>
        LET f == firstMatch(ev.mid.bullets, ev.mid.enemies)
        IN  /\ \A i \in DOMAIN ev.post.bullets :
                 ev.post.bullets[i].active = (f[i] = 0)
            /\ \A j \in DOMAIN ev.post.enemies :
                 ev.post.enemies[j].active = (j \notin HitEnemies(f))
            /\ Len(ev.post.scoreUpdates) = Cardinality(HitBullets(f))
            /\ Cardinality(HitEnemies(f)) = Cardinality(HitBullets(f))

C4_Witness ==
    /\ AfterPlayingStep
    /\ \E i \in DOMAIN ev.mid.bullets :
         /\ Cardinality({j \in DOMAIN ev.mid.enemies :
                           checkCollision(ev.mid.bullets[i], ev.mid.enemies[j])}) >= 2
         /\ Cardinality({j \in DOMAIN ev.post.enemies :
                           ~ev.post.enemies[j].active}) = 1

\* C5: gameOver is a flag with the two values Playing and GameOver; once true
\* it stays true through every frame, key-up, touch-move, touch-end, score
\* update and player-size change, and only a handler that calls resetGame
\* makes it false again
C5_GameOverUntilReset ==
    [][/\ gameState'.gameOver \in BOOLEAN
       /\ (gameState.gameOver /\ ~gameState'.gameOver)
            => (ev'.reset /\ ev'.op \in {"handleKeyDown", "handleTouchStart",
                                         "handleCanvasClick"})]_vars

C5_Witness ==
    /\ gameState.gameOver
    /\ ev.wasOver
    /\ ev.op = "playerSize"

\* C6: resetGame after game-over leaves score 0, gameOver false, the four
\* entity lists empty, both timestamps 0 and the player active at (400, 500)
\* with the configured size; game speed, player size and enemy size are as before
C6_ResetIsFresh ==
    [][(ev'.reset /\ gameState.gameOver) =>
         /\ score' = 0 /\ scoreQueue' = <<>>
         /\ gameState'.gameOver = FALSE
         /\ gameState'.bullets = <<>> /\ gameState'.enemyBullets = <<>>
         /\ gameState'.enemies = <<>> /\ gameState'.explosions = <<>>
         /\ gameState'.lastEnemySpawn = 0 /\ gameState'.lastBulletFire = 0
         /\ gameState'.player = [x |-> 400, y |-> 500, width |-> playerSize,
                                 height |-> playerSize, speed |-> 5, active |-> TRUE]
         /\ UNCHANGED <<gameSpeed, playerSize, enemySize>>]_vars

C6_Witness ==
    /\ ev.reset /\ ev.wasOver
    /\ ev.op = "handleKeyDown"
    /\ gameState = freshGameState(playerSize)
    /\ score = 0

IsRestartEvent(e) ==
    e.op \in {"handleKeyDown", "handleTouchStart", "handleCanvasClick"}

\* C7: a key-down, touch-start or canvas click restarts the game exactly when
\* gameOver is true as the event is handled: in GameOver each of them leaves
\* the fresh state, in Playing none of them changes the game state or the score
C7_RestartIffGameOver ==
    [][(inputsLeft' # inputsLeft /\ IsRestartEvent(ev')) =>
         IF gameState.gameOver
         THEN ~gameState'.gameOver /\ gameState'.enemies = <<>> /\ score' = 0
         ELSE gameState' = gameState /\ score' = score /\ scoreQueue' = scoreQueue]_vars

C7_Witness ==
    /\ ev.op = "handleCanvasClick"
    /\ ev.wasOver /\ ev.reset
    /\ ~gameState.gameOver

\* the world of the first-tick scenario: timers 0, no bullets, no key held,
\* the only enemy at the player's position
EnemyOnPlayer ==
    /\ ~gameState.gameOver
    /\ gameState.lastBulletFire = 0 /\ gameState.lastEnemySpawn = 0
    /\ gameState.bullets = <<>>
    /\ keysRef = {}
    /\ Len(gameState.enemies) = 1
    /\ gameState.enemies[1].active
    /\ gameState.enemies[1].x = gameState.player.x
    /\ gameState.enemies[1].y = gameState.player.y

\* C8 as stated: from that world the first Simulation Step sets gameOver, and
\* the Simulation Step after it leaves the World State as it is
C8_FirstTickEndsGame ==
    [][FrameStep =>
         /\ EnemyOnPlayer => gameState'.gameOver
         /\ (ev.op = "updateGame" /\ framesLeft = MaxTicks - 2)
              => gameState' = gameState]_vars

\* C8 amended: from that world the first Simulation Step sets gameOver unless
\* the bullet it auto-fires intersects the enemy once both have advanced; then
\* the enemy is destroyed and scored, and gameOver is set only if a bullet the
\* enemy fired in that step intersects the player.  After a first step that
\* set gameOver, the next Simulation Step leaves the World State as it is.
C8_FirstTickUnlessShot ==
    [][FrameStep =>
         /\ EnemyOnPlayer =>
              LET shot == \E i \in DOMAIN ev'.mid.bullets :
                             checkCollision(ev'.mid.bullets[i], ev'.mid.enemies[1])
                  struck == \E k \in DOMAIN ev'.mid.enemyBullets :
                             checkCollision(ev'.mid.enemyBullets[k], ev'.mid.player)
              IN  /\ Len(ev'.mid.bullets) = 1
                  /\ gameState'.gameOver = (~shot \/ struck)
                  /\ shot => (ScoreDue' = ScoreDue
                                + (gameState.enemies[1].type + 1) * 10)
         /\ (ev.op = "updateGame" /\ framesLeft = MaxTicks - 2 /\ gameState.gameOver)
              => gameState' = gameState]_vars

C8_Witness ==
    /\ ev.op = "updateGame" /\ ev.wasOver
    /\ framesLeft = MaxTicks - 3
    /\ inputsLeft = MaxInputs - 1
    /\ gameState.gameOver
    /\ gameState.lastBulletFire = now - 200

\* the elements of seq whose index is not in drop, in order
Remaining(seq, drop) ==
    LET kept(i) == i \notin drop
        idx == SelectSeq(Indices(seq), kept)
    IN  [k \in 1..Len(idx) |-> seq[idx[k]]]

\* C9: a bullet and an enemy that intersect in the collision pass, both still
\* active, are both gone at the end of the tick; the pass adds for each such
\* pair one explosion of frame 0 at (enemy.x + width/2, enemy.y + height/2) and
\* queues one score increment of 10 * (type + 1)
C9_HitRemovesBoth ==
    AfterPlayingStep =>
        LET f == firstMatch(ev.mid.bullets, ev.mid.enemies)
            isHit(i) == f[i] # 0
            order == SelectSeq(Indices(ev.mid.bullets), isHit)
            base == Len(ev.mid.explosions)
        IN  /\ gameState.bullets = Remaining(ev.mid.bullets, HitBullets(f))
            /\ gameState.enemies = Remaining(ev.mid.enemies, HitEnemies(f))
            /\ Len(ev.post.explosions) >= base + Len(order)
            /\ Len(ev.post.scoreUpdates) = Len(order)
            /\ \A k \in 1..Len(order) :
                 LET e == ev.mid.enemies[f[order[k]]]
                     boom == [x |-> e.x + e.width \div 2, y |-> e.y + e.height \div 2,
                              frame |-> 0, active |-> TRUE]
                 IN  /\ ev.post.explosions[base + k] = boom
                     /\ ev.post.scoreUpdates[k] = 10 * (e.type + 1)
                     /\ \E n \in DOMAIN gameState.explosions :
                          gameState.explosions[n] = [boom EXCEPT !.frame = 1]
            /\ \A n \in (base + Len(order) + 1)..Len(ev.post.explosions) :
                 /\ ev.post.explosions[n].x
                      = ev.mid.player.x + ev.mid.player.width \div 2
                 /\ ev.post.explosions[n].y
                      = ev.mid.player.y + ev.mid.player.height \div 2

C9_Witness ==
    /\ AfterPlayingStep
    /\ Len(ev.mid.bullets) = 1 /\ Len(ev.mid.enemies) = 1
    /\ checkCollision(ev.mid.bullets[1], ev.mid.enemies[1])
    /\ gameState.bullets = <<>> /\ gameState.enemies = <<>>
    /\ Len(gameState.explosions) = 1
    /\ gameState.explosions[1].frame = 1

\* C10: only entities still active collide.  gameOver is set by a tick exactly
\* when an enemy that no bullet destroyed in this tick, or an enemy bullet,
\* intersects the player; an enemy destroyed in the bullet pass does not end
\* the game though its rectangle overlaps the player, and the entities marked
\* inactive are exactly those of the scored pairs
C10_AliveGatesCollisions ==
    AfterPlayingStep =>
        LET f == firstMatch(ev.mid.bullets, ev.mid.enemies)
            p == ev.mid.player
        IN  /\ gameState.gameOver =
                 \/ \E j \in DOMAIN ev.mid.enemies :
                      j \notin HitEnemies(f) /\ checkCollision(ev.mid.enemies[j], p)
                 \/ \E k \in DOMAIN ev.mid.enemyBullets :
                      checkCollision(ev.mid.enemyBullets[k], p)
            /\ Cardinality({i \in DOMAIN ev.post.bullets : ~ev.post.bullets[i].active})
                 = Len(ev.post.scoreUpdates)
            /\ Cardinality({j \in DOMAIN ev.post.enemies : ~ev.post.enemies[j].active})
                 = Len(ev.post.scoreUpdates)

C10_Witness ==
    /\ AfterPlayingStep
    /\ ~gameState.gameOver
    /\ \E j \in DOMAIN ev.post.enemies :
         /\ ~ev.post.enemies[j].active
         /\ checkCollision(ev.post.enemies[j], ev.post.player)

\* the columns and the rows a rectangle covers
Columns(r) == r.x..(r.x + r.width - 1)
Rows(r) == r.y..(r.y + r.height - 1)

\* two rectangles share a cell
ShareCell(a, b) ==
    Columns(a) \cap Columns(b) # {} /\ Rows(a) \cap Rows(b) # {}

\* two rectangles meet along an edge without sharing a cell
TouchOnly(a, b) ==
    \/ (a.x + a.width = b.x \/ b.x + b.width = a.x) /\ Rows(a) \cap Rows(b) # {}
    \/ (a.y + a.height = b.y \/ b.y + b.height = a.y)
          /\ Columns(a) \cap Columns(b) # {}

\* the rectangles the collision passes of the last frame compared
MidRects ==
    {ev.mid.player}
      \cup {ev.mid.bullets[i] : i \in DOMAIN ev.mid.bullets}
      \cup {ev.mid.enemies[j] : j \in DOMAIN ev.mid.enemies}
      \cup {ev.mid.enemyBullets[k] : k \in DOMAIN ev.mid.enemyBullets}

\* C11: checkCollision(a, b) holds exactly when a.x < b.x + b.width,
\* a.x + a.width > b.x, a.y < b.y + b.height and a.y + a.height > b.y, that
\* is when the two half-open rectangles share a cell; it is symmetric,
\* rectangles that only touch along an edge do not intersect, and the three
\* collision passes decide by it: a bullet is spent only on an enemy it
\* shares a cell with, and the frame ends the game exactly when an enemy
\* still active or an enemy bullet shares a cell with the player
C11_CollisionIsOverlap ==
    AfterPlayingStep =>
        /\ \A a \in MidRects : \A b \in MidRects :
              /\ checkCollision(a, b) = (/\ a.x < b.x + b.width
                                         /\ a.x + a.width > b.x
                                         /\ a.y < b.y + b.height
                                         /\ a.y + a.height > b.y)
              /\ checkCollision(a, b) = ShareCell(a, b)
              /\ checkCollision(a, b) = checkCollision(b, a)
              /\ TouchOnly(a, b) => ~checkCollision(a, b)
        /\ \A i \in DOMAIN ev.post.bullets :
              ~ev.post.bullets[i].active =>
                 \E j \in DOMAIN ev.mid.enemies :
                    ShareCell(ev.mid.bullets[i], ev.mid.enemies[j])
        /\ gameState.gameOver =
              \/ \E j \in DOMAIN ev.post.enemies :
                    ev.post.enemies[j].active
                      /\ ShareCell(ev.post.enemies[j], ev.mid.player)
              \/ \E k \in DOMAIN ev.post.enemyBullets :
                    ShareCell(ev.post.enemyBullets[k], ev.mid.player)

C11_Witness ==
    /\ AfterPlayingStep
    /\ ~gameState.gameOver
    /\ \E j \in DOMAIN ev.mid.enemies :
         /\ TouchOnly(ev.mid.enemies[j], ev.mid.player)
         /\ ev.mid.enemies[j].x = ev.mid.player.x + ev.mid.player.width

\* C12: in every frame the Simulation Step completes before render reads:
\* what render draws in a frame is the World State that frame's step produced
C12_RenderDrawsSteppedState ==
    [][FrameStep => ev'.drawn = <<picture(gameState', score')>>]_vars

\* the elements of a list the collision passes left active
StillActive(list) ==
    LET isActive(o) == o.active IN SelectSeq(list, isActive)

\* C13: render never changes World State: a frame leaves the score as it
\* was and the game state as the Simulation Step returned it (the player and
\* the lists of the collision passes, less the inactive entities, the
\* explosions one frame older), and in GameOver, where the step returns the
\* state it was given, exactly as it was before the frame
C13_RenderWritesNothing ==
    [][FrameStep =>
         /\ score' = score
         /\ gameState.gameOver => gameState' = gameState
         /\ ~gameState.gameOver =>
              /\ gameState'.player = ev'.post.player
              /\ gameState'.bullets = StillActive(ev'.post.bullets)
              /\ gameState'.enemies = StillActive(ev'.post.enemies)
              /\ gameState'.enemyBullets = StillActive(ev'.post.enemyBullets)
              /\ gameState'.gameOver = ev'.post.gameOver
              /\ LET young(x) == x.frame + 1 < ExplosionFrames
                      left == SelectSeq(ev'.post.explosions, young)
                 IN  gameState'.explosions =
                        [i \in 1..Len(left) |-> [left[i] EXCEPT !.frame = @ + 1]]]_vars

C13_Witness ==
    /\ ev.op = "updateGame" /\ ev.wasOver
    /\ ev.drawn # <<>>
    /\ ev.drawn[1].gameOver
    /\ ev.drawn[1].explosions # <<>>
    /\ gameState.explosions = ev.drawn[1].explosions

\* C14: once the component is torn down both key listeners are removed and
\* no frame request is pending, whatever frames, state updates and effect
\* runs came before; from then on no Simulation Step and no render runs and
\* the World State and the held keys stay as they are
C14_NoFrameAfterTeardown ==
    [][/\ ~loop'.mounted =>
            (~loop'.listening /\ ~loop'.tracked /\ loop'.stray = 0)
       /\ ~loop.mounted =>
            /\ ~FrameStep
            /\ ev'.drawn = <<>>
            /\ gameState' = gameState
            /\ keysRef' = keysRef]_vars

C14_Witness ==
    /\ ~loop.mounted
    /\ ev.op = "unmount"
    /\ ~gameState.gameOver
    /\ framesLeft > 0 /\ framesLeft < MaxTicks - 1
    /\ inputsLeft < MaxInputs - 1

\* C15: on every Playing tick, if 200 ms or more have passed since the last
\* player shot exactly one player bullet is appended and the last-fire
\* timestamp becomes the current time; otherwise no bullet is appended and
\* the timestamp stays
C15_FiresAtCooldown ==
    [][(FrameStep /\ ~gameState.gameOver) =>
         LET before == Len(advanceBullets(gameState.bullets, gameSpeed))
         IN  IF now' - gameState.lastBulletFire >= 200
             THEN /\ Len(ev'.mid.bullets) = before + 1
                  /\ gameState'.lastBulletFire = now'
             ELSE /\ Len(ev'.mid.bullets) = before
                  /\ gameState'.lastBulletFire = gameState.lastBulletFire]_vars

\* C16: on every Playing tick, if 1000 ms or more have passed since the last
\* enemy spawn exactly one enemy is appended and the last-spawn timestamp
\* becomes the current time; otherwise no enemy is appended and the
\* timestamp stays
C16_SpawnsAtCooldown ==
    [][(FrameStep /\ ~gameState.gameOver) =>
         LET before == Len(keepEnemies(moveEnemies(gameState.enemies, gameSpeed)))
         IN  IF now' - gameState.lastEnemySpawn >= 1000
             THEN /\ Len(ev'.mid.enemies) = before + 1
                  /\ gameState'.lastEnemySpawn = now'
             ELSE /\ Len(ev'.mid.enemies) = before
                  /\ gameState'.lastEnemySpawn = gameState.lastEnemySpawn]_vars

\* C17: a change of the configured player size sets the player's width and
\* height to the new size and leaves the player's position, speed and alive
\* flag, the four entity lists, both timers, the gameOver flag and the score
\* as they were
C17_ResizeOnlyResizes ==
    [][ev'.op = "playerSize" =>
         /\ playerSize' # playerSize
         /\ gameState'.player.width = playerSize'
         /\ gameState'.player.height = playerSize'
         /\ gameState'.player.x = gameState.player.x
         /\ gameState'.player.y = gameState.player.y
         /\ gameState'.player.speed = gameState.player.speed
         /\ gameState'.player.active = gameState.player.active
         /\ gameState'.bullets = gameState.bullets
         /\ gameState'.enemies = gameState.enemies
         /\ gameState'.enemyBullets = gameState.enemyBullets
         /\ gameState'.explosions = gameState.explosions
         /\ gameState'.lastEnemySpawn = gameState.lastEnemySpawn
         /\ gameState'.lastBulletFire = gameState.lastBulletFire
         /\ gameState'.gameOver = gameState.gameOver
         /\ score' = score
         /\ scoreQueue' = scoreQueue]_vars

\* a resize has just happened in the middle of a game: the player has left
\* its start position, there are enemies and a score, and the timers differ
C17_Witness ==
    /\ ev.op = "playerSize"
    /\ gameState.player.width = playerSize
    /\ <<gameState.player.x, gameState.player.y>> # <<PlayerStartX, PlayerStartY>>
    /\ gameState.enemies # <<>>
    /\ gameState.lastEnemySpawn # gameState.lastBulletFire
    /\ score > 0

\* C18: on a Playing tick with no pointer target, two opposing direction
\* keys held together cancel: Left+Right leaves the player's x as it was at
\* the start of the tick and Up+Down leaves its y, wherever the player is
C18_OpposingKeysCancel ==
    [][(FrameStep /\ ~gameState.gameOver /\ touchRef = Null) =>
         /\ {"ArrowLeft", "ArrowRight"} \subseteq keysRef
               => gameState'.player.x = gameState.player.x
         /\ {"ArrowUp", "ArrowDown"} \subseteq keysRef
               => gameState'.player.y = gameState.player.y]_vars

\* the point of the touch that started or moved just before this frame and
\* is still held
HeldTouch ==
    IF ev.op \in {"handleTouchStart", "handleTouchMove"} /\ ev.touch # <<>>
    THEN <<[x |-> ev.touch[1][1], y |-> ev.touch[1][2]]>>
    ELSE <<>>

\* C19: while a touch is held at a point of the playfield, a Playing tick
\* moves the player from its centre straight toward that point by
\* speed * gameSpeed when the distance exceeds 5, and leaves the player where
\* it is when the distance is at most 5
C19_TouchSeeksPoint ==
    [][(FrameStep /\ ~gameState.gameOver /\ HeldTouch # <<>>) =>
         LET sought == seekTouch(gameState.player, HeldTouch[1], gameSpeed)
         IN  /\ gameState'.player.x = sought.x
             /\ gameState'.player.y = sought.y]_vars

\* C20 as stated: an explosion is gone once 10 further frames have passed
\* since the tick that created it, frames after gameOver included (its age
\* is 1 at the end of the tick that creates it, and ev.idle counts the
\* GameOver frames that have run since)
C20_ExplosionsEndAfterTenFrames ==
    \A i \in 1..Len(gameState.explosions) :
        (gameState.explosions[i].frame - 1) + ev.idle < 10

\* C20 amended: each Playing tick ages every explosion by one frame, removes
\* those whose age reaches 10 and adds the new ones at age 1, so an explosion
\* is gone once 10 further Playing ticks have run; every other step leaves
\* the explosions as they are, GameOver frames included, except a reset,
\* which clears them
C20_ExplosionsAgeWhilePlaying ==
    [][IF FrameStep /\ ~gameState.gameOver
       THEN LET before == gameState.explosions
                after == gameState'.explosions
                aged == [i \in 1..Len(before) |->
                           [before[i] EXCEPT !.frame = @ + 1]]
                young(x) == x.frame < 10
                kept == SelectSeq(aged, young)
            IN  /\ Len(after) >= Len(kept)
                /\ SubSeq(after, 1, Len(kept)) = kept
                /\ \A i \in (Len(kept) + 1)..Len(after) : after[i].frame = 1
       ELSE IF ev'.reset
       THEN gameState'.explosions = <<>>
       ELSE gameState'.explosions = gameState.explosions]_vars

\* two GameOver frames have run and World State still holds an explosion
\* that was one frame from its end when the game was lost, next to the one
\* of the player
C20_Witness ==
    /\ gameState.gameOver
    /\ ev.op = "updateGame"
    /\ ev.idle >= 2
    /\ \E i \in 1..Len(gameState.explosions) : gameState.explosions[i].frame = 9
    /\ \E i \in 1..Len(gameState.explosions) : gameState.explosions[i].frame = 1

\* C21: no entity stays in World State inactive: every bullet, enemy bullet
\* and enemy of the lists has its active flag true, after every tick, the
\* tick that sets gameOver included
C21_NoInactiveEntityKept ==
    /\ \A i \in 1..Len(gameState.bullets) : gameState.bullets[i].active
    /\ \A i \in 1..Len(gameState.enemyBullets) : gameState.enemyBullets[i].active
    /\ \A i \in 1..Len(gameState.enemies) : gameState.enemies[i].active

\* the tick that has just run set gameOver; its bullet pass had switched off
\* a bullet and an enemy, and another enemy is still in the list
C21_Witness ==
    /\ ev.op = "updateGame"
    /\ ~ev.wasOver
    /\ gameState.gameOver
    /\ \E i \in 1..Len(ev.post.bullets) : ~ev.post.bullets[i].active
    /\ \E i \in 1..Len(ev.post.enemies) : ~ev.post.enemies[i].active
    /\ gameState.enemies # <<>>

\* a player bullet past the top bound, an enemy bullet or an enemy past the
\* bottom bound
PastTop(b) == b.y < -b.height
PastBottom(e) == e.y > CANVAS_HEIGHT + e.height

\* what the claim asks of one frame: no player bullet and no enemy past its
\* bound is left, and no enemy bullet that was past the bound before the
\* frame is still in the list, moved or not
ExitedAreGone ==
    /\ \A i \in 1..Len(gameState'.bullets) : ~PastTop(gameState'.bullets[i])
    /\ \A i \in 1..Len(gameState'.enemies) : ~PastBottom(gameState'.enemies[i])
    /\ \A j \in 1..Len(gameState.enemyBullets) :
         PastBottom(gameState.enemyBullets[j]) =>
           \A i \in 1..Len(gameState'.enemyBullets) :
              /\ gameState'.enemyBullets[i] # gameState.enemyBullets[j]
              /\ gameState'.enemyBullets[i] #
                   [gameState.enemyBullets[j] EXCEPT
                      !.y = @ + gameState.enemyBullets[j].speed * gameSpeed]

C23_ScoreFrozenInGameOver ==
    [][(gameState.gameOver /\ ~ev'.reset) => score' = score]_vars

\* the same world with other kinds of enemies, and a world with the kinds
\* left out of the comparison
withKinds(st, kinds) ==
    [st EXCEPT !.enemies = [i \in 1..Len(st.enemies) |->
                               [st.enemies[i] EXCEPT !.type = kinds[i]]]]
withoutKinds(st) == withKinds(st, [i \in 1..Len(st.enemies) |-> 0])

\* C24: the kind of an enemy affects only the score: from two worlds that
\* differ in nothing but the kinds of their enemies, a tick with the same
\* held keys, clock value and random draws leaves the same player, bullets,
\* enemy bullets, enemies (but for their kinds), explosions, timers and
\* gameOver flag
C24_KindOnlyScores ==
    [][FrameStep =>
         \A kinds \in [1..Len(gameState.enemies) -> {0, 1}] :
            withoutKinds(updateGame(withKinds(gameState, kinds), keysRef, touchRef,
                                    gameSpeed, enemySize, now', ev'.random.draw,
                                    ev'.random.shooters).state)
              = withoutKinds(gameState')]_vars

\* a tick has just destroyed one of two enemies of different kinds
C24_Witness ==
    /\ ev.op = "updateGame"
    /\ ~ev.wasOver
    /\ Len(ev.post.enemies) = 2
    /\ ev.post.enemies[1].type # ev.post.enemies[2].type
    /\ ev.post.scoreUpdates # <<>>

\* C25: keyboard and touch coexist: a direction key whose key-down has just
\* been received, and whose key-up has not, is still in the held-key set
\* after a touch-start, touch-move or touch-end event
C25_TouchKeepsKeyHeld ==
    [][(/\ ev.op = "handleKeyDown"
        /\ ev.key # <<>>
        /\ ev'.op \in {"handleTouchStart", "handleTouchMove", "handleTouchEnd"})
         => (ev.key[1] \in ArrowKeys => ev.key[1] \in keysRef')]_vars

\* C26: a malformed configuration is rejected before the simulation: no
\* Playing tick runs with a player, or with an enemy, whose width or height
\* is zero or less
C26_NoStepOnMalformedSizes ==
    [][(FrameStep /\ ~gameState.gameOver) =>
         /\ gameState.player.width > 0
         /\ gameState.player.height > 0
         /\ \A i \in 1..Len(ev'.mid.enemies) :
              ev'.mid.enemies[i].width > 0 /\ ev'.mid.enemies[i].height > 0]_vars

\* C27: without a canvas, or without its 2-D context, render is a no-op that
\* raises no fault: the frame draws nothing, leaves the score as it was and
\* the game state as the Simulation Step returned it, and requests the next
\* frame
C27_RenderWithoutSurfaceIsNoOp ==
    [][(FrameStep /\ loop.surface # "ready") =>
         /\ ev'.drawn = <<>>
         /\ score' = score
         /\ gameState' = updateGame(gameState, keysRef, touchRef, gameSpeed,
                                    enemySize, now', ev'.random.draw,
                                    ev'.random.shooters).state
         /\ loop'.tracked]_vars

\* a frame has just run without a surface: its step destroyed an enemy,
\* nothing was drawn and the next frame is requested
C27_Witness ==
    /\ ev.op = "updateGame"
    /\ loop.surface # "ready"
    /\ ev.drawn = <<>>
    /\ ev.post.scoreUpdates # <<>>
    /\ gameState.explosions # <<>>
    /\ loop.tracked
    /\ framesLeft > 0

\* C28: the player movement of a tick comes from one reading of the held-key
\* set, the one at the start of the tick: the four direction checks all see
\* that set, and the tick leaves the set as it found it
C28_KeysReadAsOne ==
    [][(FrameStep /\ ~gameState.gameOver) =>
         LET p == gameState.player
             step == p.speed * gameSpeed
             x1 == IF "ArrowLeft" \in keysRef /\ p.x > 0 THEN p.x - step ELSE p.x
             x2 == IF "ArrowRight" \in keysRef /\ x1 < CANVAS_WIDTH - p.width
                   THEN x1 + step ELSE x1
             y1 == IF "ArrowUp" \in keysRef /\ p.y > 0 THEN p.y - step ELSE p.y
             y2 == IF "ArrowDown" \in keysRef /\ y1 < CANVAS_HEIGHT - p.height
                   THEN y1 + step ELSE y1
         IN  /\ gameState'.player.x = x2
             /\ gameState'.player.y = y2
             /\ keysRef' = keysRef]_vars

\* a tick has just run with a horizontal and a vertical key held since
\* before it, and the player has moved on both axes
C28_Witness ==
    /\ ev.op = "updateGame"
    /\ ~ev.wasOver
    /\ "ArrowLeft" \in keysRef
    /\ "ArrowUp" \in keysRef
    /\ gameState.player.x < PlayerStartX
    /\ gameState.player.y < PlayerStartY

\* C29: the player is always in World State; its active flag is true while
\* Playing and false once the game is over
C29_PlayerInactiveAfterGameOver ==
    /\ "player" \in DOMAIN gameState
    /\ gameState.player.active = ~gameState.gameOver

\* C30: the tick that sets gameOver adds exactly one explosion centred on
\* the player, however many enemies and enemy bullets intersect the player
\* in it (besides one explosion for each enemy a bullet destroys)
C30_OneExplosionForThePlayer ==
    [][(FrameStep /\ ~gameState.gameOver /\ gameState'.gameOver) =>
         Len(ev'.post.explosions)
           = Len(gameState.explosions) + Len(ev'.post.scoreUpdates) + 1]_vars

\* the colliders of the player passes of the frame that just ran: the enemies
\* the bullet pass left active and the active enemy bullets that share a cell
\* with the player
PlayerColliders(snap) ==
    {e \in {snap.enemies[j] : j \in DOMAIN snap.enemies}
             \cup {snap.enemyBullets[k] : k \in DOMAIN snap.enemyBullets} :
        e.active /\ ShareCell(e, snap.player)}

\* C31: gameOver goes from false to true only in a tick whose collision
\* passes find an active enemy or an active enemy bullet intersecting the
\* player; no other tick, no input event and no prop change sets it
C31_GameOverOnlyByCollision ==
    [][(~gameState.gameOver /\ gameState'.gameOver) =>
          /\ FrameStep
          /\ ev'.op = "updateGame"
          /\ PlayerColliders(ev'.post) # {}]_vars

C31_Witness ==
    /\ AfterPlayingStep
    /\ gameState.gameOver
    /\ PlayerColliders(ev.post) # {}
    /\ \E j \in DOMAIN ev.post.enemies : ~ShareCell(ev.post.enemies[j], ev.post.player)

\* the frame requests pending on the host
PendingFrames == (IF loop.tracked THEN 1 ELSE 0) + loop.stray

\* C32: from the mount to the unmount exactly one frame request is pending
\* between two frame callbacks, however the frames interleave with the runs
\* of the init effect: the loop does not stall, in GameOver either, and no
\* second request makes a host frame run two ticks
C32_OneFramePending ==
    loop.mounted => PendingFrames = 1

C32_Witness ==
    /\ loop.mounted
    /\ PendingFrames = 1
    /\ ev.op = "initEffect"
    /\ gameState.gameOver
    /\ framesLeft > 0 /\ framesLeft < MaxTicks - 1

\* C33: touch input never moves the player diagonally: whatever touch-start,
\* touch-move and touch-end events have come, with no keyboard input, at
\* most one direction key is held
C33_TouchHoldsOneDirection ==
    Cardinality(keysRef \cap ArrowKeys) <= 1

\* the state a frame started from, as the Simulation Step of that frame
\* leaves it
SnapshotAfterStep ==
    updateGame(gameState, keysRef, touchRef, gameSpeed, enemySize, now',
               ev'.random.draw, ev'.random.shooters).aliased

\* C34: a Simulation Step does not modify the state it started from: the
\* player and the entity lists of the previously committed state hold after
\* the step the values they held before it, the new values being in the
\* returned state only
C34_StepLeavesSnapshot ==
    [][FrameStep =>
         /\ SnapshotAfterStep.player = gameState.player
         /\ SnapshotAfterStep.bullets = gameState.bullets
         /\ SnapshotAfterStep.enemyBullets = gameState.enemyBullets
         /\ SnapshotAfterStep.enemies = gameState.enemies
         /\ SnapshotAfterStep.explosions = gameState.explosions]_vars

\* how many elements of a list the collision passes left inactive
Spent(list) == Cardinality({i \in DOMAIN list : ~list[i].active})

\* how many player explosions the two player passes of the last frame pushed:
\* one per active enemy and per active enemy bullet on the player
PlayerHits(snap) ==
    Cardinality({j \in DOMAIN snap.enemies :
                    snap.enemies[j].active /\ ShareCell(snap.enemies[j], snap.player)})
      + Cardinality({k \in DOMAIN snap.enemyBullets :
                    /\ snap.enemyBullets[k].active
                    /\ ShareCell(snap.enemyBullets[k], snap.player)})

\* the explosions the bullet-vs-enemy pass of the last frame pushed
HitExplosions ==
    Len(ev.post.explosions) - Len(ev.mid.explosions) - PlayerHits(ev.post)

\* C35: the hits of the bullet-vs-enemy pass of a tick are a one-to-one
\* matching: as many bullets are consumed as enemies are destroyed, and the
\* pass adds that many explosions and queues that many score increments
C35_HitsAreOneToOne ==
    AfterPlayingStep =>
        /\ Spent(ev.post.bullets) = Spent(ev.post.enemies)
        /\ HitExplosions = Spent(ev.post.enemies)
        /\ Len(ev.post.scoreUpdates) = Spent(ev.post.enemies)
        /\ Spent(ev.mid.bullets) = 0 /\ Spent(ev.mid.enemies) = 0

C35_Witness ==
    /\ AfterPlayingStep
    /\ Len(ev.post.bullets) = 2
    /\ Spent(ev.post.bullets) = 1
    /\ Len(ev.post.enemies) = 1
    /\ \A i \in DOMAIN ev.mid.bullets :
          ShareCell(ev.mid.bullets[i], ev.mid.enemies[1])

\* C36: at the end of every Playing tick every entity left in World State
\* is inside the vertical removal bounds: y > -height for a player bullet,
\* y < 600 + height for an enemy bullet and for an enemy, the enemy bullets
\* fired during the tick included
C36_KeptAreInsideBounds ==
    AfterPlayingStep =>
        /\ \A i \in DOMAIN gameState.bullets :
              gameState.bullets[i].y > -gameState.bullets[i].height
        /\ \A k \in DOMAIN gameState.enemyBullets :
              gameState.enemyBullets[k].y
                 < CANVAS_HEIGHT + gameState.enemyBullets[k].height
        /\ \A j \in DOMAIN gameState.enemies :
              gameState.enemies[j].y < CANVAS_HEIGHT + gameState.enemies[j].height

\* the enemies of a frame as they stand when they fire: those of the state
\* the frame started from and the one spawned in the frame, each advanced
EnemiesAtFire ==
    LET spawned == now' - gameState.lastEnemySpawn > SpawnCooldown
        born == [x |-> ev'.random.draw.x, y |-> -enemySize, width |-> enemySize,
                 height |-> enemySize, speed |-> ev'.random.draw.speed,
                 active |-> TRUE, type |-> ev'.random.draw.type]
        all == IF spawned THEN Append(gameState.enemies, born) ELSE gameState.enemies
    IN  [j \in 1..Len(all) |-> [all[j] EXCEPT !.y = @ + all[j].speed * gameSpeed]]

\* C37: the bullet factories are pure.  The bullet a tick fires for the
\* player is an active 4 x 12 bullet of speed 8 at x = player.x +
\* player.width / 2 - 2, y = player.y (seen here after its first advance),
\* the bullet an enemy fires an active 4 x 8 bullet of speed 4 at x = enemy.x
\* + enemy.width / 2 - 2, y = enemy.y + enemy.height; firing changes neither
\* the player nor the enemy, and adds to the two bullet lists nothing but
\* these bullets
C37_FactoriesArePure ==
    [][(FrameStep /\ ~gameState.gameOver) =>
         LET p == ev'.mid.player
             fired == now' - gameState.lastBulletFire > FireCooldown
             own == [x |-> p.x + p.width \div 2 - 2, y |-> p.y - 8 * gameSpeed,
                     width |-> 4, height |-> 12, speed |-> 8, active |-> TRUE]
             ownKept == fired /\ own.y > -12
             foes == EnemiesAtFire
             shots == Cardinality(ev'.random.shooters)
             held == Len(ev'.mid.enemyBullets) - shots
             shot(e) == [x |-> e.x + e.width \div 2 - 2, y |-> e.y + e.height,
                         width |-> 4, height |-> 8, speed |-> 4, active |-> TRUE]
         IN  /\ p = moveByKeys(gameState.player, keysRef, gameSpeed)
             /\ ownKept => /\ ev'.mid.bullets # <<>>
                           /\ ev'.mid.bullets[Len(ev'.mid.bullets)] = own
             /\ Len(ev'.mid.bullets) <= Len(gameState.bullets) + (IF fired THEN 1 ELSE 0)
             /\ held >= 0 /\ held <= Len(gameState.enemyBullets)
             /\ \A k \in 1..shots :
                   \E j \in ev'.random.shooters :
                      /\ Cardinality({i \in ev'.random.shooters : i <= j}) = k
                      /\ ev'.mid.enemyBullets[held + k] = shot(foes[j])
             /\ \A j \in DOMAIN foes :
                   foes[j].y < CANVAS_HEIGHT + foes[j].height =>
                      \E m \in DOMAIN ev'.mid.enemies : ev'.mid.enemies[m] = foes[j]]_vars

C37_Witness ==
    /\ AfterPlayingStep
    /\ ev.random.shooters # {}
    /\ gameState.lastBulletFire = now
    /\ ev.mid.bullets # <<>>
    /\ ev.mid.enemies # <<>>

\* C38: at the end of every tick every explosion in World State has an age
\* from 1 to 9: an explosion created in a tick is aged to 1 in that tick and
\* none of age 10 or more is kept
C38_ExplosionAgesInRange ==
    ev.op = "updateGame" =>
        \A i \in DOMAIN gameState.explosions :
           /\ gameState.explosions[i].frame >= 1
           /\ gameState.explosions[i].frame <= 9

C38_Witness ==
    /\ AfterPlayingStep
    /\ Len(gameState.explosions) > Len(ev.mid.explosions)
    /\ \E i \in DOMAIN gameState.explosions : gameState.explosions[i].frame = 1
    /\ \E i \in DOMAIN gameState.explosions : gameState.explosions[i].frame = 9

====
